---- MODULE Spec2Model ----
(***************************************************************************)
(* A model of ding-rs, the linkding REST client (src/ding-rs/src).         *)
(*                                                                         *)
(* DingClient holds a base URL and an API token.  Every public operation   *)
(* builds one authenticated request, awaits the transport, turns an error  *)
(* status into an error and hands the response to a success handler.  The  *)
(* fetch-all operations drive the single-page operations through           *)
(* _load_all.  Call chains (the async callers) are modelled as processes:  *)
(* a chain is suspended exactly where the code awaits.                     *)
(***************************************************************************)
EXTENDS Integers, Sequences, FiniteSets, TLC

VARIABLES
    client,   \* DingClient: base_url, api_token
    server,   \* the remote collection: N records, M per page, one planned fault
    live,     \* the call chains the caller runs
    call,     \* per chain: the frame of the operation it is in
    net,      \* per chain: its requests in flight (sent, not yet answered)
    inbox,    \* per chain: the transport's answer to the awaited request
    trace,    \* per chain: what the operation did (send, recv, handle)
    decoding  \* a Bookmark's JSON and what decoding it gave

vars == <<client, server, live, call, net, inbox, trace, decoding>>

(***************************************************************************)
(* Bounds of the model.                                                    *)
(***************************************************************************)
MaxN == 3       \* records in the server's collection: 0..MaxN
MaxM == 2       \* the server's default page size: 1..MaxM
MaxId == 2      \* record ids a caller passes: 1..MaxId
MaxSize == 2    \* records on a page of the unconstrained service: 0..MaxSize
MaxPages == 3   \* page requests the unconstrained service answers per call

Chains == {"c1", "c2"}

(***************************************************************************)
(* Option<T> and Result<T, DingError>.                                     *)
(***************************************************************************)
None == <<>>
Some(x) == <<x>>
is_some(o) == o # <<>>
is_none(o) == o = <<>>
unwrap(o) == o[1]

Ok(v) == [tag |-> "Ok", val |-> v]
Err(e) == [tag |-> "Err", val |-> e]
Panic(msg) == [tag |-> "Panic", val |-> msg]
Pending == [tag |-> "Pending", val |-> "pending"]
is_ok(r) == r.tag = "Ok"
is_err(r) == r.tag = "Err"

\* errors.rs: the two kinds of DingError, each wrapping its source.
UrlError(source) == [kind |-> "Url", source |-> source, status |-> 0]
RequestError(source, status) == [kind |-> "Request", source |-> source, status |-> status]

(***************************************************************************)
(* URLs.  A path is the sequence of its segments ("api/tags/" is           *)
(* <<"api", "tags", "">>), so joining and formatting are computed.         *)
(***************************************************************************)
GoodBase == [scheme |-> "http", host |-> "h", path |-> <<"ld", "">>, cannot_be_a_base |-> FALSE]
NoSlashBase == [scheme |-> "http", host |-> "h", path |-> <<"ld">>, cannot_be_a_base |-> FALSE]
OpaqueBase == [scheme |-> "mailto", host |-> "", path |-> <<"x">>, cannot_be_a_base |-> TRUE]
BaseUrls == {GoodBase, NoSlashBase, OpaqueBase}
Tokens == {"abc", "xyz"}

\* Url::join of a relative path without dot segments: the base's last
\* segment is dropped and the relative segments appended; a base that cannot
\* be a base gives ParseError.
Join(base, rel) ==
    IF base.cannot_be_a_base
    THEN Err(UrlError("RelativeUrlWithCannotBeABaseBase"))
    ELSE Ok([base EXCEPT !.path = SubSeq(base.path, 1, Len(base.path) - 1) \o rel])

(***************************************************************************)
(* types.rs: the request parameter bundles.                                *)
(***************************************************************************)
Queries == {None, Some("rust")}
Limits == {None, Some(1)}
Offsets == {None, Some(1)}
Ids == 1..MaxId

BookmarksRequests == [query : Queries, limit : Limits, offset : Offsets]
TagsRequests == [limit : Limits, offset : Offsets]
BookmarkRequests == [url : {None, Some("http://a/")}, title : {None, Some("t")}]
TagRequests == [name : {"tag"}]
NoParams == [unit |-> TRUE]

\* IterableRequest::limit / ::offset, for both bundles: every other field is
\* copied.
SetLimit(p, limit) == [p EXCEPT !.limit = limit]
SetOffset(p, offset) == [p EXCEPT !.offset = offset]

\* serde's encoding of the query pairs: a pair whose value is None is left out.
RECURSIVE QueryPairs(_)
QueryPairs(pairs) ==
    IF pairs = <<>> THEN <<>>
    ELSE LET p == Head(pairs) IN
         (IF is_some(p[2]) THEN <<(<<p[1], unwrap(p[2])>>)>> ELSE <<>>)
             \o QueryPairs(Tail(pairs))

\* x.to_string() of an Option<u64>.
MapToString(o) == IF is_some(o) THEN Some(ToString(unwrap(o))) ELSE None

\* Serialize for BookmarkRequest (skip_serializing_if = "Option::is_none") and
\* TagRequest.
JsonBookmarkRequest(p) == QueryPairs(<< <<"url", p.url>>, <<"title", p.title>> >>)
JsonTagRequest(p) == << <<"name", p.name>> >>

(***************************************************************************)
(* types.rs: decoding the URL fields of a Bookmark.  A URL text is the     *)
(* sequence of its tokens ("http://a/" is <<"http", "://", "a", "/">>); a  *)
(* JSON value is its type, its text and whether the text is written with   *)
(* escape sequences ("https:\/\/a\/").                                   *)
(***************************************************************************)
Texts ==
    { <<>>,
      <<"http", "://", "a", "/">>,
      <<"https", "://", "web.archive.org", "/", "web", "/", "1">>,
      <<"mailto", ":", "x">>,
      <<"not a url">>,
      <<"http", "://">>,
      <<"/", "web", "/", "1">> }

JsonNull == [type |-> "null", text |-> <<>>, escaped |-> FALSE]
JsonMissing == [type |-> "missing", text |-> <<>>, escaped |-> FALSE]
JsonString(text, escaped) == [type |-> "string", text |-> text, escaped |-> escaped]
JsonValues ==
    {JsonNull, JsonMissing}
        \cup {JsonString(t, FALSE) : t \in Texts}
        \cup {JsonString(t, TRUE) : t \in Texts \ {<<>>}}

\* Url::parse
UrlParse(text) ==
    IF Len(text) >= 3 /\ text[1] \in {"http", "https"} /\ text[2] = "://"
          /\ text[3] \notin {"/", ""}
    THEN LET rest == SubSeq(text, 4, Len(text))
             segments == SelectSeq(rest, LAMBDA t : t # "/")
         IN Ok([scheme |-> text[1], host |-> text[3],
                path |-> segments \o (IF rest = <<>> \/ rest[Len(rest)] = "/"
                                      THEN <<"">> ELSE <<>>),
                cannot_be_a_base |-> FALSE])
    ELSE IF Len(text) >= 2 /\ text[1] = "mailto" /\ text[2] = ":"
    THEN Ok([scheme |-> "mailto", host |-> "", path |-> SubSeq(text, 3, Len(text)),
             cannot_be_a_base |-> TRUE])
    ELSE IF Len(text) >= 2 /\ text[1] \in {"http", "https"} /\ text[2] = "://"
    THEN Err("EmptyHost")
    ELSE Err("RelativeUrlWithoutBase")

DeserializeStr_owned(v) ==
    IF v.type = "missing" THEN Err("missing field")
    ELSE IF v.type # "string" THEN Err("invalid type")
    ELSE Ok(v.text)

\* types.rs 123: let s: &str = Deserialize::deserialize(deserializer)?
\* A &str borrows from the input, which serde_json can do only for a string
\* written without escape sequences.
DeserializeStr(v) ==
    IF v.type = "missing" THEN Err("missing field")
    ELSE IF v.type # "string" THEN Err("invalid type")
    ELSE IF v.escaped THEN Err("invalid type: expected a borrowed string")
    ELSE Ok(v.text)

\* types.rs 119-130: empty_url
empty_url(v) ==
    LET s == DeserializeStr(v) IN
    IF is_err(s) THEN s
    ELSE IF s.val = <<>> THEN Ok(None)
    ELSE LET url == UrlParse(s.val) IN
         IF is_err(url) THEN url ELSE Ok(Some(url.val))

\* The derived decoding of an Option<Url> field (favicon_url).
DeserializeOptionUrl(v) ==
    IF v.type \in {"missing", "null"} THEN Ok(None)
    ELSE LET url == UrlParse(v.text) IN
         IF is_err(url) THEN url ELSE Ok(Some(url.val))

BookmarkJsons == [id : {1}, web_archive_snapshot_url : JsonValues, favicon_url : JsonValues]

\* The derived Deserialize of Bookmark (types.rs 76-95), as resp.json() runs
\* it: any field that fails fails the decode.
DecodeBookmark(json) ==
    LET snapshot == empty_url(json.web_archive_snapshot_url)
        favicon == DeserializeOptionUrl(json.favicon_url)
    IN IF is_err(snapshot) \/ is_err(favicon)
       THEN Err(RequestError("decode", 0))
       ELSE Ok([id |-> json.id,
                web_archive_snapshot_url |-> snapshot.val,
                favicon_url |-> favicon.val])

(***************************************************************************)
(* client.rs: the operations, their methods, paths and decode targets.     *)
(***************************************************************************)
PageOps == {"bookmarks", "archived", "tags"}
FetchAllOps == {"all_bookmarks", "all_archived", "all_tags"}
NoOutputOps == {"archive_bookmark", "unarchive_bookmark", "delete_bookmark"}
IdOps == {"bookmark", "reset_bookmark", "update_bookmark", "archive_bookmark",
          "unarchive_bookmark", "delete_bookmark", "tag"}
Ops == PageOps \cup FetchAllOps \cup IdOps \cup {"create_bookmark", "create_tag", "user_profile"}

\* The single-page operation a fetch-all operation calls (client.rs 27, 37, 97).
PageOpOf(op) ==
    CASE op = "all_bookmarks" -> "bookmarks"
      [] op = "all_archived" -> "archived"
      [] op = "all_tags" -> "tags"
      [] OTHER -> op

Method(op) ==
    CASE op \in {"bookmarks", "archived", "bookmark", "tags", "tag", "user_profile"} -> "GET"
      [] op \in {"create_bookmark", "archive_bookmark", "unarchive_bookmark", "create_tag"} -> "POST"
      [] op = "reset_bookmark" -> "PUT"
      [] op = "update_bookmark" -> "PATCH"
      [] op = "delete_bookmark" -> "DELETE"

\* The api_path literal or format!() of each single operation.
UnarchivePath_as_archive(id) == <<"api", "bookmarks", ToString(id), "archive", "">>

UnarchivePath(id) == <<"api", "bookmarks", ToString(id), "unarchive", "">>

ApiPath(op, id) ==
    CASE op = "bookmarks" -> <<"api", "bookmarks", "">>
      [] op = "archived" -> <<"api", "bookmarks", "archived", "">>
      [] op = "bookmark" -> <<"api", "bookmarks", ToString(id), "">>
      [] op = "create_bookmark" -> <<"api", "bookmarks", "">>
      [] op = "reset_bookmark" -> <<"api", "bookmarks", ToString(id), "">>
      [] op = "update_bookmark" -> <<"api", "bookmarks", ToString(id), "">>
      [] op = "archive_bookmark" -> <<"api", "bookmarks", ToString(id), "archive", "">>
      [] op = "unarchive_bookmark" -> UnarchivePath(id)
      [] op = "delete_bookmark" -> <<"api", "bookmarks", ToString(id), "">>
      [] op = "tags" -> <<"api", "tags">>
      [] op = "tag" -> <<"api", "tags", ToString(id), "">>
      [] op = "create_tag" -> <<"api", "tags", "">>
      [] op = "user_profile" -> <<"api", "user", "profile", "">>

\* The type O the JSON handler decodes into.
Target(op) ==
    CASE op \in {"bookmarks", "archived"} -> "BookmarksResponse"
      [] op = "tags" -> "TagsResponse"
      [] op \in {"bookmark", "create_bookmark", "reset_bookmark", "update_bookmark"} -> "Bookmark"
      [] op \in {"tag", "create_tag"} -> "Tag"
      [] op = "user_profile" -> "UserProfile"
      [] OTHER -> "unit"

_request_builder_no_auth(method, api_path) ==
    LET url == Join(client.base_url, api_path) IN
    IF is_err(url) THEN url
    ELSE Ok([method |-> method, url |-> url.val, headers |-> <<>>,
             query |-> <<>>, json |-> None])

\* DingClient::_request_builder
_request_builder(method, api_path) ==
    LET url == Join(client.base_url, api_path) IN
    IF is_err(url) THEN url
    ELSE Ok([method |-> method,
             url |-> url.val,
             headers |-> << <<"Authorization", "Token " \o client.api_token>> >>,
             query |-> <<>>,
             json |-> None])

\* DingClient::_bookmarks_request_builder
_bookmarks_request_builder(api_path, params) ==
    LET req == _request_builder("GET", api_path) IN
    IF is_err(req) THEN req
    ELSE Ok([req.val EXCEPT !.query = QueryPairs(<< <<"q", params.query>>,
                                                    <<"limit", MapToString(params.limit)>>,
                                                    <<"offset", MapToString(params.offset)>> >>)])

\* The request each single operation builds before it awaits the transport.
BuildRequest(op, id, params) ==
    LET req == _request_builder(Method(op), ApiPath(op, id)) IN
    CASE op \in {"bookmarks", "archived"} -> _bookmarks_request_builder(ApiPath(op, id), params)
      [] op = "tags" ->
            IF is_err(req) THEN req
            ELSE Ok([req.val EXCEPT !.query = QueryPairs(<< <<"limit", MapToString(params.limit)>>,
                                                            <<"offset", MapToString(params.offset)>> >>)])
      [] op \in {"create_bookmark", "reset_bookmark", "update_bookmark"} ->
            IF is_err(req) THEN req
            ELSE Ok([req.val EXCEPT !.json = Some(JsonBookmarkRequest(params))])
      [] op = "create_tag" ->
            IF is_err(req) THEN req
            ELSE Ok([req.val EXCEPT !.json = Some(JsonTagRequest(params))])
      [] OTHER -> req

AssertsUrl_create_only(op) == op = "create_bookmark"

\* assert!(params.url.is_some(), ...) of create_bookmark and reset_bookmark.
AssertsUrl(op) == op \in {"create_bookmark", "reset_bookmark"}

(***************************************************************************)
(* The transport and the remote service.  The service is mounted at        *)
(* http://h/ld/ and holds three collections of server.N records each,      *)
(* served server.M per page unless the request names a limit; `next` is    *)
(* present exactly when records remain past the page.  server.fault plans  *)
(* one fault, striking the requests whose offset is fault.at.              *)
(***************************************************************************)
ServerRoot == <<"ld">>
FaultKinds == {"transport", "status300", "status500", "decode"}
NoFault == [kind |-> "none", at |-> 0]
Faults == {NoFault} \cup [kind : FaultKinds, at : 0..(MaxN - 1)]
Servers == [N : 0..MaxN, M : 1..MaxM, fault : Faults]
ConcFault == [kind |-> "status500", at |-> 1]

QueryGet(query, key) ==
    LET hits == SelectSeq(query, LAMBDA p : p[1] = key) IN
    IF hits = <<>> THEN None ELSE Some(hits[1][2])

\* The inverse of to_string on the numbers a request can carry.
ParseU64(s) == CHOOSE n \in 0..(2 * MaxN + MaxM + 2 + MaxPages * MaxSize) : ToString(n) = s

QueryU64(query, key, default) ==
    LET v == QueryGet(query, key) IN
    IF is_some(v) THEN ParseU64(unwrap(v)) ELSE default

Record(kind, i) == [kind |-> kind, id |-> i]
Collection(kind) == [i \in 1..server.N |-> Record(kind, i)]

Body(type, json) == [type |-> type, json |-> json]
NoBody == Body("empty", <<>>)
HtmlBody == Body("html", <<"Not Found">>)
Malformed == Body("malformed", <<"{">>)
Response(status, body) == [transport |-> "ok", status |-> status, body |-> body]
TransportError == [transport |-> "error", status |-> 0, body |-> NoBody]

Min(a, b) == IF a < b THEN a ELSE b
Max(a, b) == IF a > b THEN a ELSE b

\* One page of a collection: the paginated envelope of types.rs 53-74.
Page(type, kind, query) ==
    LET offset == QueryU64(query, "offset", 0)
        limit == QueryU64(query, "limit", server.M)
        last == Min(offset + limit, server.N)
    IN Body(type, [count |-> server.N,
                   next |-> IF offset + limit < server.N THEN Some(offset + limit) ELSE None,
                   previous |-> IF offset > 0 THEN Some(Max(0, offset - limit)) ELSE None,
                   results |-> IF offset < last
                               THEN SubSeq(Collection(kind), offset + 1, last)
                               ELSE <<>>])

\* The path below the service's mount point, without a trailing slash; <<"?">>
\* when the URL is not below it.
Route(url) ==
    LET n == Len(ServerRoot) IN
    IF url.host = "h" /\ Len(url.path) >= n /\ SubSeq(url.path, 1, n) = ServerRoot
    THEN LET rest == SubSeq(url.path, n + 1, Len(url.path)) IN
         IF rest # <<>> /\ rest[Len(rest)] = ""
         THEN SubSeq(rest, 1, Len(rest) - 1) ELSE rest
    ELSE <<"?">>

Exists(idstr) == \E i \in 1..server.N : ToString(i) = idstr

\* What the service answers when no fault strikes.
Serve(req) ==
    LET r == Route(req.url)
        m == req.method
    IN CASE m = "GET" /\ r = <<"api", "bookmarks">> ->
                Response(200, Page("BookmarksResponse", "bookmark", req.query))
         [] m = "GET" /\ r = <<"api", "bookmarks", "archived">> ->
                Response(200, Page("BookmarksResponse", "archived", req.query))
         [] m = "GET" /\ r = <<"api", "tags">> ->
                Response(200, Page("TagsResponse", "tag", req.query))
         [] m = "POST" /\ r = <<"api", "bookmarks">> ->
                Response(201, Body("Bookmark", Record("bookmark", server.N + 1)))
         [] m = "POST" /\ r = <<"api", "tags">> ->
                Response(201, Body("Tag", Record("tag", server.N + 1)))
         [] m = "GET" /\ r = <<"api", "user", "profile">> ->
                Response(200, Body("UserProfile", Record("profile", 0)))
         [] m \in {"GET", "PUT", "PATCH"} /\ Len(r) = 3
               /\ SubSeq(r, 1, 2) = <<"api", "bookmarks">> /\ Exists(r[3]) ->
                Response(200, Body("Bookmark", Record("bookmark", ParseU64(r[3]))))
         [] m = "DELETE" /\ Len(r) = 3
               /\ SubSeq(r, 1, 2) = <<"api", "bookmarks">> /\ Exists(r[3]) ->
                Response(204, NoBody)
         [] m = "POST" /\ Len(r) = 4 /\ SubSeq(r, 1, 2) = <<"api", "bookmarks">>
               /\ Exists(r[3]) /\ r[4] \in {"archive", "unarchive"} ->
                Response(204, NoBody)
         [] m = "GET" /\ Len(r) = 3 /\ SubSeq(r, 1, 2) = <<"api", "tags">> /\ Exists(r[3]) ->
                Response(200, Body("Tag", Record("tag", ParseU64(r[3]))))
         [] OTHER -> Response(404, HtmlBody)

Strikes(req) ==
    /\ server.fault.kind # "none"
    /\ QueryU64(req.query, "offset", 0) = server.fault.at

\* req.send().await: the answer of the transport to one request.
Transport(req) ==
    LET normal == Serve(req) IN
    IF ~Strikes(req) THEN normal
    ELSE CASE server.fault.kind = "transport" -> TransportError
           [] server.fault.kind = "status300" -> Response(300, normal.body)
           [] server.fault.kind = "status500" -> Response(500, normal.body)
           [] server.fault.kind = "decode" -> Response(normal.status, Malformed)

\* The collection a page request addresses.
PageKind(req) ==
    LET r == Route(req.url) IN
    CASE r = <<"api", "bookmarks">> -> "bookmark"
      [] r = <<"api", "bookmarks", "archived">> -> "archived"
      [] OTHER -> "tag"

\* What an unconstrained service may answer to a page request: a page of any
\* size, with or without `next`, or an error status.
Answers ==
    [size : 0..MaxSize, more : BOOLEAN, status : {200}]
        \cup {[size |-> 0, more |-> FALSE, status |-> 500]}

\* The answer a of an unconstrained service to the page request req: the
\* a.size records that follow the request's offset.
AnyPage(req, a) ==
    LET normal == Serve(req)
        offset == QueryU64(req.query, "offset", 0)
    IN IF normal.status # 200 \/ a.status # 200
       THEN Response(IF a.status # 200 THEN a.status ELSE normal.status, HtmlBody)
       ELSE Response(200,
                Body(normal.body.type,
                     [count |-> offset + a.size + (IF a.more THEN 1 ELSE 0),
                      next |-> IF a.more THEN Some(offset + a.size) ELSE None,
                      previous |-> IF offset > 0 THEN Some(0) ELSE None,
                      results |-> [j \in 1..a.size |-> Record(PageKind(req), offset + j)]]))

(***************************************************************************)
(* client.rs 154-185: from the transport's answer to the operation's       *)
(* result.                                                                 *)
(***************************************************************************)
\* Response::error_for_status: a client (4xx) or server (5xx) error status.
IsErrorStatus(status) == status >= 400 /\ status <= 599

\* resp.json::<O>(): the body decodes when it is JSON of the expected type.
Decode(body, target) ==
    IF body.type = target THEN Ok(body.json)
    ELSE Err(RequestError("decode", 0))

\* Whether _send_request passes the answer on to its success handler.
ReachesHandler(resp) == resp.transport = "ok" /\ ~IsErrorStatus(resp.status)

\* DingClient::_send_request with the handler the operation chose:
\* _empty_response_handler for archive, unarchive and delete,
\* _json_response_handler for the rest.
_send_request(resp, op) ==
    IF resp.transport = "error" THEN Err(RequestError("transport", 0))
    ELSE IF IsErrorStatus(resp.status) THEN Err(RequestError("status", resp.status))
    ELSE IF op \in NoOutputOps THEN Ok(<<>>)
    ELSE Decode(resp.body, Target(op))

(***************************************************************************)
(* The frame of a call chain and the steps of an operation.                *)
(***************************************************************************)
IdleFrame ==
    [pc |-> "idle", op |-> "none", id |-> 0, arg |-> NoParams, params |-> NoParams,
     offset |-> 0, results |-> <<>>, outcome |-> Pending]

Event(ev, x) == [ev |-> ev, x |-> x]

StoreFrame_shared_offset(c, f) ==
    [d \in Chains |-> IF d = c THEN f ELSE [call[d] EXCEPT !.offset = f.offset]]

\* The frame is local to the call: storing it touches no other chain.
StoreFrame(c, f) == [call EXCEPT ![c] = f]

\* The operation returns (or panics) without awaiting anything further.
Finish(c, f, outcome) ==
    /\ call' = StoreFrame(c, [f EXCEPT !.pc = "done", !.outcome = outcome])
    /\ UNCHANGED <<decoding, client, server, live, net>>

\* req.send().await: the requests go out and the chain is suspended.
Await(c, f, reqs) ==
    /\ call' = StoreFrame(c, [f EXCEPT !.pc = "await"])
    /\ net' = [net EXCEPT ![c] = @ \o reqs]
    /\ trace' = [trace EXCEPT ![c] = @ \o [i \in 1..Len(reqs) |-> Event("send", reqs[i])]]
    /\ UNCHANGED <<decoding, client, server, live, inbox>>

\* A single operation, from its call to its first await (client.rs 31-126).
Begin(c, op, id, params) ==
    /\ c \in live
    /\ call[c].pc = "idle"
    /\ LET f == [IdleFrame EXCEPT !.op = op, !.id = id, !.arg = params, !.params = params]
           req == BuildRequest(op, id, params)
       IN IF AssertsUrl(op) /\ ~is_some(params.url)
          THEN Finish(c, f, Panic("url need to be specified!")) /\ UNCHANGED <<inbox, trace>>
          ELSE IF is_err(req)
          THEN Finish(c, f, req) /\ UNCHANGED <<inbox, trace>>
          ELSE Await(c, f, <<req.val>>)

ClearPaging_keeps_limit(params) == SetOffset(params, None)

\* client.rs 195: params.limit(None).offset(None)
ClearPaging(params) == SetOffset(SetLimit(params, None), None)

IsLast_inverted(page) == is_some(page.next)

IsLast_or_empty(page) == is_none(page.next) \/ page.results = <<>>

\* client.rs 202: resp.next().is_none()
IsLast(page) == is_none(page.next)

NextOffset_by_one(offset, page) == offset + 1

NextOffset_by_page_size(offset, page) == offset + server.M

\* client.rs 206: offset += resp.results().len()
NextOffset(offset, page) == offset + Len(page.results)

PageCalls_prefetch(op, params, offset) ==
    << BuildRequest(PageOpOf(op), 0, SetOffset(params, Some(offset))),
       BuildRequest(PageOpOf(op), 0, SetOffset(params, Some(offset + 1))) >>

\* client.rs 198, 207: call(params.offset(Some(offset))), the one page
\* request of this round of the loop.
PageCalls(op, params, offset) ==
    << BuildRequest(PageOpOf(op), 0, SetOffset(params, Some(offset))) >>

PageFailed_keeps_partial(f, err) == [f EXCEPT !.pc = "done", !.outcome = Ok(f.results)]

\* client.rs 198, 207: the `?` on a failed page call returns its error.
PageFailed(f, err) == [f EXCEPT !.pc = "done", !.outcome = err]

\* Issue the page calls of one round; a call that fails before it is sent
\* ends the operation with its error.
IssuePages(c, f, calls) ==
    LET failed == SelectSeq(calls, is_err) IN
    IF failed # <<>>
    THEN /\ call' = StoreFrame(c, PageFailed(f, failed[1]))
         /\ UNCHANGED <<decoding, client, server, live, net, inbox, trace>>
    ELSE Await(c, f, [i \in 1..Len(calls) |-> calls[i].val])

\* DingClient::_load_all up to its first await (client.rs 195-198).
_load_all(c, op, params) ==
    /\ c \in live
    /\ call[c].pc = "idle"
    /\ LET p == ClearPaging(params)
           f == [IdleFrame EXCEPT !.op = op, !.arg = params, !.params = p]
       IN IssuePages(c, f, PageCalls(op, p, 0))

all_bookmarks(c) == \E params \in BookmarksRequests : _load_all(c, "all_bookmarks", params)
bookmarks(c) == \E params \in BookmarksRequests : Begin(c, "bookmarks", 0, params)
all_archived(c) == \E params \in BookmarksRequests : _load_all(c, "all_archived", params)
archived(c) == \E params \in BookmarksRequests : Begin(c, "archived", 0, params)
bookmark(c) == \E id \in Ids : Begin(c, "bookmark", id, NoParams)
create_bookmark(c) == \E params \in BookmarkRequests : Begin(c, "create_bookmark", 0, params)
reset_bookmark(c) ==
    \E id \in Ids, params \in BookmarkRequests : Begin(c, "reset_bookmark", id, params)
update_bookmark(c) ==
    \E id \in Ids, params \in BookmarkRequests : Begin(c, "update_bookmark", id, params)
archive_bookmark(c) == \E id \in Ids : Begin(c, "archive_bookmark", id, NoParams)
unarchive_bookmark(c) == \E id \in Ids : Begin(c, "unarchive_bookmark", id, NoParams)
delete_bookmark(c) == \E id \in Ids : Begin(c, "delete_bookmark", id, NoParams)
all_tags(c) == \E params \in TagsRequests : _load_all(c, "all_tags", params)
tags(c) == \E params \in TagsRequests : Begin(c, "tags", 0, params)
tag(c) == \E id \in Ids : Begin(c, "tag", id, NoParams)
create_tag(c) == \E params \in TagRequests : Begin(c, "create_tag", 0, params)
user_profile(c) == Begin(c, "user_profile", 0, NoParams)

\* The transport answers the oldest request in flight of chain c.
Respond(c) ==
    /\ net[c] # <<>>
    /\ LET resp == Transport(Head(net[c])) IN
       /\ net' = [net EXCEPT ![c] = Tail(@)]
       /\ inbox' = [inbox EXCEPT ![c] = Append(@, resp)]
       /\ trace' = [trace EXCEPT ![c] = Append(@, Event("recv", resp))]
    /\ UNCHANGED <<decoding, client, server, live, call>>

\* What a chain records when it resumes with the answer resp.
Resumed(c, resp) ==
    /\ inbox' = [inbox EXCEPT ![c] = Tail(@)]
    /\ trace' = [trace EXCEPT ![c] =
                    IF ReachesHandler(resp) THEN Append(@, Event("handle", resp)) ELSE @]

\* A single operation resumes: _send_request gives its result
\* (client.rs 162-163).
ResumeSingle(c) ==
    /\ call[c].pc = "await"
    /\ call[c].op \notin FetchAllOps
    /\ inbox[c] # <<>>
    /\ LET f == call[c]
           resp == Head(inbox[c])
       IN /\ Resumed(c, resp)
          /\ Finish(c, f, _send_request(resp, f.op))

\* _load_all resumes with the answer to its page call (client.rs 198-209).
ResumeLoadAll(c) ==
    /\ call[c].pc = "await"
    /\ call[c].op \in FetchAllOps
    /\ inbox[c] # <<>>
    /\ LET f == call[c]
           resp == Head(inbox[c])
           r == _send_request(resp, PageOpOf(f.op))
       IN IF is_err(r)
          THEN /\ Resumed(c, resp)
               /\ call' = StoreFrame(c, PageFailed(f, r))
               /\ UNCHANGED <<decoding, client, server, live, net>>
          ELSE LET page == r.val
                   results == f.results \o page.results
               IN IF IsLast(page)
                  THEN /\ Resumed(c, resp)
                       /\ Finish(c, [f EXCEPT !.results = results], Ok(results))
                  ELSE LET offset == NextOffset(f.offset, page)
                           g == [f EXCEPT !.results = results, !.offset = offset]
                           calls == PageCalls(f.op, f.params, offset)
                           failed == SelectSeq(calls, is_err)
                       IN /\ inbox' = [inbox EXCEPT ![c] = Tail(@)]
                          /\ IF failed # <<>>
                             THEN /\ call' = StoreFrame(c, PageFailed(g, failed[1]))
                                  /\ trace' = [trace EXCEPT ![c] = Append(@, Event("handle", resp))]
                                  /\ UNCHANGED net
                             ELSE /\ call' = StoreFrame(c, [g EXCEPT !.pc = "await"])
                                  /\ net' = [net EXCEPT ![c] = @ \o [i \in 1..Len(calls) |-> calls[i].val]]
                                  /\ trace' = [trace EXCEPT ![c] =
                                        Append(@, Event("handle", resp))
                                            \o [i \in 1..Len(calls) |-> Event("send", calls[i].val)]]
                          /\ UNCHANGED <<decoding, client, server, live>>

\* The caller takes the result; the chain is free for its next call.
Return(c) ==
    /\ call[c].pc = "done"
    /\ call' = [call EXCEPT ![c] = IdleFrame]
    /\ net' = [net EXCEPT ![c] = <<>>]
    /\ inbox' = [inbox EXCEPT ![c] = <<>>]
    /\ trace' = [trace EXCEPT ![c] = <<>>]
    /\ UNCHANGED <<decoding, client, server, live>>

(***************************************************************************)
(* Specifications.  DingClient::new fixes the client; Spec runs one call   *)
(* chain against every server, SpecConc two interleaved chains.            *)
(***************************************************************************)
NotDecoding == [json |-> <<>>, out |-> Pending]

Constructed ==
    /\ call = [c \in Chains |-> IdleFrame]
    /\ net = [c \in Chains |-> <<>>]
    /\ inbox = [c \in Chains |-> <<>>]
    /\ trace = [c \in Chains |-> <<>>]

Init ==
    /\ client \in [base_url : BaseUrls, api_token : Tokens]
    /\ server \in Servers
    /\ live = {"c1"}
    /\ decoding = NotDecoding
    /\ Constructed

InitConc ==
    /\ client \in [base_url : {GoodBase}, api_token : {"abc"}]
    /\ server \in [N : {MaxN}, M : {1, MaxM}, fault : {ConcFault}]
    /\ live = Chains
    /\ decoding = NotDecoding
    /\ Constructed

Next ==
    \E c \in Chains :
        \/ all_bookmarks(c)
        \/ bookmarks(c)
        \/ all_archived(c)
        \/ archived(c)
        \/ bookmark(c)
        \/ create_bookmark(c)
        \/ reset_bookmark(c)
        \/ update_bookmark(c)
        \/ archive_bookmark(c)
        \/ unarchive_bookmark(c)
        \/ delete_bookmark(c)
        \/ all_tags(c)
        \/ tags(c)
        \/ tag(c)
        \/ create_tag(c)
        \/ user_profile(c)
        \/ Respond(c)
        \/ ResumeSingle(c)
        \/ ResumeLoadAll(c)
        \/ Return(c)

Spec == Init /\ [][Next]_vars
SpecConc == InitConc /\ [][Next]_vars

\* resp.json::<Bookmark>() on a body that is a Bookmark's JSON
\* (client.rs 170-172).
JsonDecodeBookmark ==
    /\ decoding.out = Pending
    /\ decoding' = [decoding EXCEPT !.out = DecodeBookmark(decoding.json)]
    /\ UNCHANGED <<client, server, live, call, net, inbox, trace>>

InitDecode ==
    /\ client = [base_url |-> GoodBase, api_token |-> "abc"]
    /\ server = [N |-> 0, M |-> 1, fault |-> NoFault]
    /\ live = {}
    /\ decoding \in [json : BookmarkJsons, out : {Pending}]
    /\ Constructed

NextDecode == JsonDecodeBookmark

\* Decoding one Bookmark, for every JSON of its URL fields.
SpecDecode == InitDecode /\ [][NextDecode]_vars

\* An unconstrained service answers the oldest page request in flight of
\* chain c, while the call has had fewer than MaxPages answers.
RespondAnyPage(c) ==
    /\ net[c] # <<>>
    /\ Len(SelectSeq(trace[c], LAMBDA e : e.ev = "recv")) < MaxPages
    /\ \E a \in Answers :
          LET resp == AnyPage(Head(net[c]), a) IN
          /\ net' = [net EXCEPT ![c] = Tail(@)]
          /\ inbox' = [inbox EXCEPT ![c] = Append(@, resp)]
          /\ trace' = [trace EXCEPT ![c] = Append(@, Event("recv", resp))]
    /\ UNCHANGED <<decoding, client, server, live, call>>

InitFree ==
    /\ client = [base_url |-> GoodBase, api_token |-> "abc"]
    /\ server = [N |-> 0, M |-> 1, fault |-> NoFault]
    /\ live = {"c1"}
    /\ decoding = NotDecoding
    /\ Constructed

NextFree ==
    \E c \in Chains :
        \/ all_bookmarks(c)
        \/ all_archived(c)
        \/ all_tags(c)
        \/ RespondAnyPage(c)
        \/ ResumeLoadAll(c)
        \/ Return(c)

\* The fetch-all operations against a service that answers each page request
\* with a page of any size, with or without `next`, or with an error.
SpecFree == InitFree /\ [][NextFree]_vars

(***************************************************************************)
(* What a chain's trace shows.                                             *)
(***************************************************************************)
Events(c, ev) == SelectSeq(trace[c], LAMBDA e : e.ev = ev)
Sent(c) == [i \in 1..Len(Events(c, "send")) |-> Events(c, "send")[i].x]
Handled(c) == [i \in 1..Len(Events(c, "handle")) |-> Events(c, "handle")[i].x]

RECURSIVE SumCounts(_, _)
\* The number of records of the first k pages handed to the handler.
SumCounts(pages, k) ==
    IF k = 0 THEN 0 ELSE Len(pages[k].body.json.results) + SumCounts(pages, k - 1)

Ceil(n, m) == (n + m - 1) \div m

\* The client's base URL resolves below the service's mount point.
Routed ==
    /\ is_ok(Join(client.base_url, <<"">>))
    /\ Route(Join(client.base_url, <<"">>).val) = <<>>

\* The simulated collection of the pagination properties: every request
\* reaches the service and no fault is planned.
Healthy == Routed /\ server.fault.kind = "none"

Done(c, ops) == c \in live /\ call[c].pc = "done" /\ call[c].op \in ops

\* all_bookmarks over the simulated collection: the N records in server
\* order, `count` page requests, each at the offset summing the earlier pages.
DrainsIn(c, count) ==
    /\ call[c].outcome.tag = "Ok"
    /\ call[c].outcome.val = Collection("bookmark")
    /\ Len(Sent(c)) = count
    /\ Len(Handled(c)) = count
    /\ Len(trace[c]) = 3 * count
    /\ \A k \in 1..count :
          /\ trace[c][3 * k - 2].ev = "send"
          /\ trace[c][3 * k - 1].ev = "recv"
          /\ trace[c][3 * k].ev = "handle"
    /\ \A k \in 1..Len(Sent(c)) :
          QueryGet(Sent(c)[k].query, "offset") = Some(ToString(SumCounts(Handled(c), k - 1)))

\* C1 as stated: all_bookmarks on N records served M per page returns the N
\* records in server order with ceil(N/M) page requests, each at the offset
\* summing the earlier pages.  (Fails for N = 0: one request, not zero.)
C1_CeilRequests ==
    \A c \in Chains :
        Done(c, {"all_bookmarks"}) /\ Healthy => DrainsIn(c, Ceil(server.N, server.M))

\* C1 amended: as above with max(1, ceil(N/M)) page requests, which is
\* ceil(N/M) for N >= 1 and one request for N = 0.
C1_Pagination ==
    \A c \in Chains :
        Done(c, {"all_bookmarks"}) /\ Healthy =>
            DrainsIn(c, Max(1, Ceil(server.N, server.M)))

\* C1 witness: three records served two per page, drained in two requests.
C1_Witness ==
    /\ Done("c1", {"all_bookmarks"}) /\ Healthy
    /\ server.N = 3 /\ server.M = 2
    /\ Len(Sent("c1")) = 2
    /\ Len(call["c1"].results) = 3

\* C2: on an empty collection (an empty page without `next`) a fetch-all
\* operation issues exactly one page request and returns the empty sequence.
C2_EmptyCollection ==
    \A c \in Chains :
        c \in live /\ call[c].op \in FetchAllOps /\ Healthy /\ server.N = 0 =>
            /\ Len(Sent(c)) = 1
            /\ call[c].pc = "done" =>
                  /\ call[c].outcome.tag = "Ok"
                  /\ call[c].outcome.val = <<>>
                  /\ Len(Handled(c)) = 1
                  /\ Handled(c)[1].body.json.results = <<>>
                  /\ is_none(Handled(c)[1].body.json.next)

\* C2 witness: all_tags has returned from an empty collection.
C2_Witness ==
    /\ Done("c1", {"all_tags"}) /\ Healthy /\ server.N = 0
    /\ Len(Sent("c1")) = 1

\* C3: every page request of a fetch-all operation has no limit, the first
\* has offset 0, and each carries the caller's query unchanged, whatever
\* limit and offset the caller passed.
C3_IgnoresCallerPaging ==
    \A c \in Chains :
        c \in live /\ call[c].op \in FetchAllOps =>
            /\ Len(Sent(c)) >= 1 => QueryGet(Sent(c)[1].query, "offset") = Some("0")
            /\ \A k \in 1..Len(Sent(c)) :
                  /\ is_none(QueryGet(Sent(c)[k].query, "limit"))
                  /\ call[c].op \in {"all_bookmarks", "all_archived"} =>
                        QueryGet(Sent(c)[k].query, "q") = call[c].arg.query
                  /\ call[c].op = "all_tags" => is_none(QueryGet(Sent(c)[k].query, "q"))

\* C3 witness: the caller passed a limit, an offset and a query, and a second
\* page request has gone out.
C3_Witness ==
    /\ "c1" \in live /\ call["c1"].op = "all_archived"
    /\ call["c1"].arg = [query |-> Some("rust"), limit |-> Some(1), offset |-> Some(1)]
    /\ Len(Sent("c1")) >= 2

(***************************************************************************)
(* Error handling.                                                         *)
(***************************************************************************)
Is2xx(status) == status >= 200 /\ status <= 299

\* The answer the chain last resumed with, when the operation has ended.
LastRecv(c) == Events(c, "recv")[Len(Events(c, "recv"))].x

\* C4 as stated: a response with a non-2xx status never reaches the JSON
\* decoder or the success handler, and the operation it answers ends with a
\* Request-kind error.  (Fails: a 3xx status passes error_for_status.)
C4_Non2xxIsError ==
    \A c \in Chains :
        /\ \A i \in 1..Len(Handled(c)) : Is2xx(Handled(c)[i].status)
        /\ /\ c \in live /\ call[c].pc = "done" /\ Len(Events(c, "recv")) >= 1
           /\ inbox[c] = <<>>
           /\ LastRecv(c).transport = "ok" /\ ~Is2xx(LastRecv(c).status)
           => /\ call[c].outcome.tag = "Err"
              /\ call[c].outcome.val.kind = "Request"

\* What holds of the code for C4: a response with a 4xx or 5xx status never
\* reaches the decoder or the success handler, and the operation ends with
\* the Request-kind error of that status, whatever the body.
C4_ErrorStatusIsError ==
    \A c \in Chains :
        /\ \A i \in 1..Len(Handled(c)) : ~IsErrorStatus(Handled(c)[i].status)
        /\ /\ c \in live /\ call[c].pc = "done" /\ Len(Events(c, "recv")) >= 1
           /\ inbox[c] = <<>>
           /\ LastRecv(c).transport = "ok" /\ LastRecv(c).status \in 400..599
           => /\ call[c].outcome.tag = "Err"
              /\ call[c].outcome.val = RequestError("status", LastRecv(c).status)

\* A 500 answer whose body is the JSON the operation decodes ended the
\* operation with an error.
C4_ErrorStatusWitness ==
    /\ Done("c1", {"bookmark"}) /\ Len(Events("c1", "recv")) = 1
    /\ LastRecv("c1").status = 500
    /\ LastRecv("c1").body.type = "Bookmark"
    /\ call["c1"].outcome.tag = "Err"

\* C5: every request sent, by any operation and every page request of a
\* fetch-all operation, carries Authorization: Token <token> with the token
\* given at construction.
C5_EveryRequestAuthorized ==
    \A c \in Chains :
        /\ \A k \in 1..Len(Sent(c)) :
              /\ Len(Sent(c)[k].headers) = 1
              /\ Sent(c)[k].headers[1][1] = "Authorization"
              /\ Sent(c)[k].headers[1][2] = "Token " \o client.api_token
        /\ \A k \in 1..Len(net[c]) :
              net[c][k].headers = << <<"Authorization", "Token " \o client.api_token>> >>

\* C5 witness: a later page request of a filtered fetch-all is in flight under
\* the token "xyz".
C5_Witness ==
    /\ call["c1"].op = "all_bookmarks" /\ call["c1"].arg.query = Some("rust")
    /\ client.api_token = "xyz"
    /\ Len(Sent("c1")) >= 2 /\ Len(net["c1"]) = 1

\* The JSON body update_bookmark sends: the fields present, and no others.
PatchBody(params) ==
    (IF is_some(params.url) THEN << <<"url", unwrap(params.url)>> >> ELSE <<>>)
        \o (IF is_some(params.title) THEN << <<"title", unwrap(params.title)>> >> ELSE <<>>)

\* C6: create_bookmark and reset_bookmark without a url are rejected (the
\* assertion panics) before any request is issued; update_bookmark never is,
\* and sends its PATCH with whatever fields are present, url or not.
C6_UrlPrecondition ==
    \A c \in Chains :
        /\ c \in live /\ call[c].op \in {"create_bookmark", "reset_bookmark"}
              /\ is_none(call[c].arg.url)
           => /\ call[c].pc = "done"
              /\ call[c].outcome.tag = "Panic"
              /\ trace[c] = <<>> /\ net[c] = <<>> /\ inbox[c] = <<>>
        /\ c \in live /\ call[c].op \in {"create_bookmark", "reset_bookmark"}
              /\ is_some(call[c].arg.url)
           => call[c].outcome.tag # "Panic"
        /\ c \in live /\ call[c].op = "update_bookmark"
           => /\ call[c].outcome.tag # "Panic"
              /\ ~client.base_url.cannot_be_a_base =>
                    /\ Len(Sent(c)) = 1
                    /\ Sent(c)[1].method = "PATCH"
                    /\ Sent(c)[1].json = Some(PatchBody(call[c].arg))

\* C6 witness: reset_bookmark was called without a url and has panicked.
C6_Witness ==
    /\ Done("c1", {"reset_bookmark"})
    /\ is_none(call["c1"].arg.url)
    /\ call["c1"].outcome.tag = "Panic"

\* The error _send_request makes of a failed answer; NoError otherwise.
NoError == [kind |-> "none", source |-> "none", status |-> 0]
FailureOf(resp, op) ==
    IF resp.transport = "error" THEN RequestError("transport", 0)
    ELSE IF resp.status \in 400..599 THEN RequestError("status", resp.status)
    ELSE IF resp.body.type # Target(PageOpOf(op)) THEN RequestError("decode", 0)
    ELSE NoError

\* What holds of the code for C7: when a page request of a fetch-all
\* operation fails as the code sees it (URL construction, transport, 4xx or
\* 5xx status, decode) the operation returns that error, no further request
\* is issued and none of the accumulated records is returned.
C7_PageErrorPropagates ==
    \A c \in Chains :
        c \in live /\ call[c].op \in FetchAllOps =>
            /\ client.base_url.cannot_be_a_base =>
                  /\ call[c].pc = "done"
                  /\ call[c].outcome.tag = "Err"
                  /\ call[c].outcome.val = UrlError("RelativeUrlWithCannotBeABaseBase")
                  /\ trace[c] = <<>> /\ net[c] = <<>>
            /\ \A i \in 1..Len(trace[c]) :
                  trace[c][i].ev = "recv" /\ FailureOf(trace[c][i].x, call[c].op) # NoError =>
                      /\ \A j \in (i + 1)..Len(trace[c]) :
                            j = i + 1 /\ trace[c][j] = Event("handle", trace[c][i].x)
                      /\ net[c] = <<>>
                      /\ inbox[c] = <<>> =>
                            /\ call[c].pc = "done"
                            /\ call[c].outcome.tag = "Err"
                            /\ call[c].outcome.val = FailureOf(trace[c][i].x, call[c].op)
            /\ call[c].pc = "done" /\ call[c].outcome.tag = "Ok" =>
                  /\ Len(Events(c, "recv")) >= 1
                  /\ FailureOf(LastRecv(c), call[c].op) = NoError

\* The failure C7 names: as FailureOf, with every non-2xx status a failure.
StatedFailureOf(resp, op) ==
    IF resp.transport = "error" THEN RequestError("transport", 0)
    ELSE IF ~Is2xx(resp.status) THEN RequestError("status", resp.status)
    ELSE IF resp.body.type # Target(PageOpOf(op)) THEN RequestError("decode", 0)
    ELSE NoError

\* C7 as stated: when a page request of a fetch-all operation fails (URL
\* construction, transport, non-2xx status, decode) the operation returns
\* that error, issues no further request and returns no records.  (Fails:
\* a page answered with a 3xx status is decoded and the loop goes on.)
C7_AsStated ==
    \A c \in Chains :
        c \in live /\ call[c].op \in FetchAllOps =>
            /\ client.base_url.cannot_be_a_base =>
                  /\ call[c].pc = "done"
                  /\ call[c].outcome.tag = "Err"
                  /\ call[c].outcome.val = UrlError("RelativeUrlWithCannotBeABaseBase")
                  /\ trace[c] = <<>> /\ net[c] = <<>>
            /\ \A i \in 1..Len(trace[c]) :
                  trace[c][i].ev = "recv" /\ StatedFailureOf(trace[c][i].x, call[c].op) # NoError =>
                      /\ \A j \in (i + 1)..Len(trace[c]) : trace[c][j].ev # "send"
                      /\ net[c] = <<>>
                      /\ inbox[c] = <<>> =>
                            /\ call[c].pc = "done"
                            /\ call[c].outcome.tag = "Err"
                            /\ call[c].outcome.val = StatedFailureOf(trace[c][i].x, call[c].op)

\* C7 witness: a fetch-all operation that had accumulated records ended with
\* the error of a later page.
C7_Witness ==
    /\ Done("c1", FetchAllOps)
    /\ call["c1"].results # <<>>
    /\ Len(Sent("c1")) = 2
    /\ call["c1"].outcome.tag = "Err"
    /\ call["c1"].outcome.val.source = "decode"

\* C8: within one fetch-all call at most one page request is in flight, and a
\* page request after the first goes out only once the answer to the one
\* before it has been received and handed to the decoder.
C8_Sequential ==
    \A c \in Chains :
        c \in live /\ call[c].op \in FetchAllOps =>
            /\ Len(net[c]) + Len(inbox[c]) <= 1
            /\ Len(Events(c, "send")) - Len(Events(c, "recv")) = Len(net[c])
            /\ \A i \in 1..Len(trace[c]) :
                  trace[c][i].ev = "send" /\ i > 1 =>
                      /\ i >= 4
                      /\ trace[c][i - 1].ev = "handle"
                      /\ trace[c][i - 2].ev = "recv"
                      /\ trace[c][i - 3].ev = "send"
                      /\ trace[c][i - 1].x = trace[c][i - 2].x

\* C8 witness: the second page request is in flight, after the first answer
\* was handled.
C8_Witness ==
    /\ call["c1"].op \in FetchAllOps
    /\ Len(Events("c1", "send")) = 2 /\ Len(Events("c1", "handle")) = 1
    /\ Len(net["c1"]) = 1

(***************************************************************************)
(* Independent call chains over one client.                                *)
(***************************************************************************)
RECURSIVE AloneAll(_, _, _, _, _)
\* _load_all run to its end with no other chain: the requests it sends and
\* its result.
AloneAll(op, params, offset, results, sent) ==
    LET req == PageCalls(op, params, offset)[1] IN
    IF is_err(req) THEN [sent |-> sent, outcome |-> req]
    ELSE LET r == _send_request(Transport(req.val), PageOpOf(op))
             all == Append(sent, req.val)
         IN IF is_err(r) THEN [sent |-> all, outcome |-> r]
            ELSE IF IsLast(r.val)
            THEN [sent |-> all, outcome |-> Ok(results \o r.val.results)]
            ELSE AloneAll(op, params, NextOffset(offset, r.val),
                          results \o r.val.results, all)

\* An operation run to its end with no other chain.
Alone(op, id, arg) ==
    IF op \in FetchAllOps THEN AloneAll(op, ClearPaging(arg), 0, <<>>, <<>>)
    ELSE IF AssertsUrl(op) /\ is_none(arg.url)
    THEN [sent |-> <<>>, outcome |-> Panic("url need to be specified!")]
    ELSE LET req == BuildRequest(op, id, arg) IN
         IF is_err(req) THEN [sent |-> <<>>, outcome |-> req]
         ELSE [sent |-> <<req.val>>, outcome |-> _send_request(Transport(req.val), op)]

IsPrefix(s, t) == Len(s) <= Len(t) /\ SubSeq(t, 1, Len(s)) = s

\* Each chain has sent what it would send alone, and ends as it would alone.
AsIfAlone ==
    \A c \in Chains :
        c \in live /\ call[c].pc # "idle" =>
            LET a == Alone(call[c].op, call[c].id, call[c].arg) IN
            /\ IsPrefix(Sent(c), a.sent)
            /\ call[c].pc = "done" =>
                  /\ Sent(c) = a.sent
                  /\ call[c].outcome.tag = a.outcome.tag
                  /\ call[c].outcome.val = a.outcome.val

\* C9: no operation changes the client's base URL or token, and with chains
\* interleaved over one client each chain's requests and result are those
\* of the same call run alone (the server answering each request the same
\* way).
C9_StateFree == [][client' = client]_vars /\ []AsIfAlone

\* C9 witness: two fetch-all loops are under way at once, one with its
\* second page request out while the other holds the answer to its first.
C9_Witness ==
    /\ call["c1"].op = "all_bookmarks" /\ call["c2"].op = "all_tags"
    /\ call["c1"].pc = "await" /\ call["c2"].pc = "await"
    /\ Len(Sent("c1")) = 2 /\ Len(net["c1"]) = 1
    /\ Len(Sent("c2")) = 1 /\ inbox["c2"] # <<>>
    /\ call["c1"].offset # call["c2"].offset

(***************************************************************************)
(* The wire contract.                                                      *)
(***************************************************************************)
\* The wire-contract table: method and path of each single operation.
Wire(op, id) ==
    CASE op = "bookmarks" -> <<"GET", <<"api", "bookmarks", "">> >>
      [] op = "archived" -> <<"GET", <<"api", "bookmarks", "archived", "">> >>
      [] op = "bookmark" -> <<"GET", <<"api", "bookmarks", ToString(id), "">> >>
      [] op = "create_bookmark" -> <<"POST", <<"api", "bookmarks", "">> >>
      [] op = "reset_bookmark" -> <<"PUT", <<"api", "bookmarks", ToString(id), "">> >>
      [] op = "update_bookmark" -> <<"PATCH", <<"api", "bookmarks", ToString(id), "">> >>
      [] op = "archive_bookmark" -> <<"POST", <<"api", "bookmarks", ToString(id), "archive", "">> >>
      [] op = "unarchive_bookmark" -> <<"POST", <<"api", "bookmarks", ToString(id), "unarchive", "">> >>
      [] op = "delete_bookmark" -> <<"DELETE", <<"api", "bookmarks", ToString(id), "">> >>
      [] op = "tags" -> <<"GET", <<"api", "tags">> >>
      [] op = "tag" -> <<"GET", <<"api", "tags", ToString(id), "">> >>
      [] op = "create_tag" -> <<"POST", <<"api", "tags", "">> >>
      [] op = "user_profile" -> <<"GET", <<"api", "user", "profile", "">> >>

\* The URL of a path relative to a base URL: the base's directory (its path
\* up to the last "/") followed by the path.
Under(base, path) ==
    [scheme |-> base.scheme, host |-> base.host, cannot_be_a_base |-> FALSE,
     path |-> [i \in 1..(Len(base.path) - 1 + Len(path)) |->
                  IF i < Len(base.path) THEN base.path[i]
                  ELSE path[i - Len(base.path) + 1]]]

OnTheWire(req, op, id) ==
    /\ req.method = Wire(op, id)[1]
    /\ req.url = Under(client.base_url, Wire(op, id)[2])

\* C10: a single operation issues exactly one request, with the method and
\* path of the wire-contract table, and every page request of a fetch-all
\* operation goes to the endpoint of its single-page counterpart.
C10_WireContract ==
    \A c \in Chains :
        c \in live /\ call[c].pc # "idle" /\ ~client.base_url.cannot_be_a_base =>
            /\ call[c].op \notin FetchAllOps =>
                  /\ Len(Sent(c)) = (IF call[c].outcome.tag = "Panic" THEN 0 ELSE 1)
                  /\ \A k \in 1..Len(Sent(c)) : OnTheWire(Sent(c)[k], call[c].op, call[c].id)
            /\ call[c].op \in FetchAllOps =>
                  /\ Len(Sent(c)) >= 1
                  /\ \A k \in 1..Len(Sent(c)) :
                        OnTheWire(Sent(c)[k], PageOpOf(call[c].op), 0)

\* C10 witness: unarchive_bookmark(2) has sent its one request and returned.
C10_Witness ==
    /\ Done("c1", {"unarchive_bookmark"}) /\ call["c1"].id = 2
    /\ Len(Sent("c1")) = 1
    /\ call["c1"].outcome.tag = "Ok"

(***************************************************************************)
(* Decoding web_archive_snapshot_url.                                      *)
(***************************************************************************)
Snapshot == decoding.json.web_archive_snapshot_url
Decoded == decoding.out # Pending
\* The Bookmark's other URL field decodes, so the decode turns on the snapshot.
OthersDecode == is_ok(DeserializeOptionUrl(decoding.json.favicon_url))
WellFormed(text) == is_ok(UrlParse(text))

\* C11 as stated: an empty string decodes to no value, a well-formed
\* non-empty URL string to the parsed URL, and a malformed non-empty string
\* fails the decode.  (Fails: a well-formed URL written with JSON escape
\* sequences cannot be borrowed as &str and fails the decode.)
C11_SnapshotDecode ==
    Decoded /\ Snapshot.type = "string" =>
        /\ Snapshot.text = <<>> /\ OthersDecode =>
              /\ is_ok(decoding.out)
              /\ decoding.out.val.web_archive_snapshot_url = None
        /\ Snapshot.text # <<>> /\ WellFormed(Snapshot.text) /\ OthersDecode =>
              /\ is_ok(decoding.out)
              /\ decoding.out.val.web_archive_snapshot_url = Some(UrlParse(Snapshot.text).val)
        /\ Snapshot.text # <<>> /\ ~WellFormed(Snapshot.text) => is_err(decoding.out)

\* What holds of the code for C11: the same, for a string written without
\* escape sequences; one written with them fails the decode.
C11_UnescapedSnapshotDecode ==
    Decoded /\ Snapshot.type = "string" =>
        /\ Snapshot.text = <<>> /\ OthersDecode =>
              /\ is_ok(decoding.out)
              /\ decoding.out.val.web_archive_snapshot_url = None
        /\ Snapshot.text # <<>> /\ WellFormed(Snapshot.text) /\ OthersDecode
              /\ ~Snapshot.escaped =>
              /\ is_ok(decoding.out)
              /\ decoding.out.val.web_archive_snapshot_url = Some(UrlParse(Snapshot.text).val)
        /\ Snapshot.text # <<>> /\ ~WellFormed(Snapshot.text) => is_err(decoding.out)
        /\ Snapshot.escaped => is_err(decoding.out)

\* An unescaped well-formed snapshot URL was decoded to its parsed URL.
C11_UnescapedWitness ==
    /\ Decoded /\ is_ok(decoding.out)
    /\ Snapshot = JsonString(<<"https", "://", "web.archive.org", "/", "web", "/", "1">>, FALSE)
    /\ decoding.out.val.web_archive_snapshot_url
          = Some([scheme |-> "https", host |-> "web.archive.org",
                  path |-> <<"web", "1">>, cannot_be_a_base |-> FALSE])

(***************************************************************************)
(* Fetch-all against pages of any size.                                    *)
(***************************************************************************)
RECURSIVE ConcatPages(_, _)
\* The records of the first k pages handed to the handler, in order.
ConcatPages(pages, k) ==
    IF k = 0 THEN <<>> ELSE ConcatPages(pages, k - 1) \o pages[k].body.json.results

OffsetOf(req) == QueryGet(req.query, "offset")
NextOf(resp) == resp.body.json.next
FetchingAll(c) == c \in live /\ call[c].op \in FetchAllOps /\ call[c].pc # "idle"

\* C12: over successfully returned pages of any sizes a fetch-all operation
\* stops exactly at the first page without `next` and returns the in-order
\* concatenation of the records of the pages up to it; it goes on after a
\* page with `next`, and every page request it issues has as offset the
\* number of records accumulated so far.
C12_StopsAtFirstLast ==
    \A c \in Chains :
        FetchingAll(c) =>
            LET S == Sent(c)
                H == Handled(c)
            IN /\ \A k \in 1..Len(S) :
                     /\ OffsetOf(S[k]) = Some(ToString(SumCounts(H, k - 1)))
                     /\ OffsetOf(S[k]) = Some(ToString(Len(ConcatPages(H, k - 1))))
               /\ call[c].results = ConcatPages(H, Len(H))
               /\ \A k \in 1..Len(H) :
                     /\ is_none(NextOf(H[k])) =>
                           /\ k = Len(H)
                           /\ Len(S) = k
                           /\ call[c].pc = "done"
                           /\ call[c].outcome = Ok(ConcatPages(H, k))
                     /\ is_some(NextOf(H[k])) => Len(S) >= k + 1

\* C12 witness: pages of two, one and two records, the third without `next`,
\* returned as five records.
C12_Witness ==
    /\ Done("c1", FetchAllOps)
    /\ Len(Handled("c1")) = 3
    /\ Len(Handled("c1")[1].body.json.results) = 2
    /\ Len(Handled("c1")[2].body.json.results) = 1
    /\ Len(Handled("c1")[3].body.json.results) = 2
    /\ is_none(NextOf(Handled("c1")[3]))
    /\ is_ok(call["c1"].outcome) /\ Len(call["c1"].outcome.val) = 5
    /\ OffsetOf(Sent("c1")[3]) = Some("3")

\* C13: a fetch-all operation has returned only if its last answer was a page
\* without `next` or a failed page request; while every answer is a page with
\* `next` it has not returned and has issued one more page request, however
\* many pages it has had; and after a page with `next` and zero records the
\* following request repeats the same offset.
C13_ReturnsOnlyOnLastOrFailure ==
    \A c \in Chains :
        FetchingAll(c) =>
            LET S == Sent(c)
                H == Handled(c)
                R == Events(c, "recv")
            IN /\ call[c].pc = "done" =>
                     \/ /\ is_ok(call[c].outcome)
                        /\ Len(H) >= 1 /\ Len(H) = Len(R)
                        /\ is_none(NextOf(H[Len(H)]))
                     \/ /\ is_err(call[c].outcome)
                        /\ Len(R) >= 1 /\ Len(H) = Len(R) - 1
                        /\ ~ReachesHandler(R[Len(R)].x)
               /\ Len(H) = Len(R) /\ (\A k \in 1..Len(H) : is_some(NextOf(H[k]))) =>
                     /\ call[c].pc = "await"
                     /\ inbox[c] = <<>> => Len(S) = Len(H) + 1
               /\ \A k \in 1..Len(H) :
                     is_some(NextOf(H[k])) /\ H[k].body.json.results = <<>> =>
                        /\ Len(S) >= k + 1
                        /\ OffsetOf(S[k + 1]) = OffsetOf(S[k])

\* C13 witness: every answered page had `next`, the second had no records and
\* the third request repeated its offset; the operation has not returned and
\* one more page request is in flight.
C13_Witness ==
    /\ FetchingAll("c1") /\ call["c1"].pc = "await"
    /\ Len(Handled("c1")) = MaxPages
    /\ \A k \in 1..MaxPages : is_some(NextOf(Handled("c1")[k]))
    /\ Handled("c1")[2].body.json.results = <<>>
    /\ OffsetOf(Sent("c1")[3]) = OffsetOf(Sent("c1")[2])
    /\ Len(Sent("c1")) = MaxPages + 1
    /\ Len(net["c1"]) = 1

====
